---- MODULE Spec2Model ----
(***************************************************************************)
(* Verification model of the MySQL benchmark harness:                      *)
(*   - src/compare-results.py : ResultComparator (comparison engine)       *)
(*   - src/mysql_test.py      : MySQLPerformanceTester (workload engine)   *)
(*                                                                         *)
(* Numbers.  Metric values and thresholds are integers.  A quotient the    *)
(* code computes in floating point is kept exact, as a record              *)
(* [num, den] with den > 0, and compared by cross-multiplication.          *)
(***************************************************************************)
EXTENDS Integers, Sequences, FiniteSets, TLC

VARIABLES
    \* ---- ResultComparator (compare-results.py) ----
    result1,      \* self.result1 : the first loaded result file
    result2,      \* self.result2 : the second loaded result file
    label1,       \* self.label1
    label2,       \* self.label2
    threshold,    \* self.threshold
    out,          \* what the last comparator operation returned or raised
    \* ---- MySQLPerformanceTester (mysql_test.py) ----
    args,         \* the arguments of the workload method being run
    call,         \* the method run on the main thread and how it ended
    frame,        \* locals of the sequential workload on the main thread
    disp,         \* locals of test_concurrent_writes (the dispatcher)
    workers,      \* thread_id -> locals and future of one concurrent_writer
    conns,        \* self.pool: connection -> free or taken, open transaction
    rows,         \* committed rows of perf_test_writes
    results,      \* self.results
    session       \* main(): the run of setup, the selected tests, save and cleanup

cmpVars == <<result1, result2, label1, label2, threshold, out>>

testerVars == <<session, args, call, frame, disp, workers, conns, rows, results>>

vars == <<cmpVars, testerVars>>

(***************************************************************************)
(* Exact rationals                                                         *)
(***************************************************************************)
Abs(x) == IF x < 0 THEN 0 - x ELSE x

Rat(n, d) == [num |-> n, den |-> d]

\* a / b for integers, b # 0, with the sign carried by the numerator
RatDivInt(a, b) == IF b < 0 THEN Rat(0 - a, 0 - b) ELSE Rat(a, b)

\* p / q for rationals, q # 0
RatDiv(p, q) == RatDivInt(p.num * q.den, p.den * q.num)

RatSub(p, q) == Rat(p.num * q.den - q.num * p.den, p.den * q.den)

RatAbs(p) == Rat(Abs(p.num), p.den)

RatTimes(p, k) == Rat(p.num * k, p.den)

RatGt(p, q) == p.num * q.den > q.num * p.den

RatGe(p, q) == p.num * q.den >= q.num * p.den

RatEq(p, q) == p.num * q.den = q.num * p.den

RatIsZero(p) == p.num = 0

\* p >= k and p < k for an integer k
RatGeInt(p, k) == p.num >= k * p.den

RatLtInt(p, k) == p.num < k * p.den

\* Python round(x, 2) of a rational, in hundredths, ties to even
Round2(p) ==
    LET n == p.num * 100
        q == n \div p.den
        r == n % p.den
    IN  IF 2 * r > p.den THEN q + 1
        ELSE IF 2 * r = p.den THEN (IF q % 2 = 0 THEN q ELSE q + 1)
        ELSE q

RECURSIVE SumSeq(_)
SumSeq(s) == IF s = <<>> THEN 0 ELSE Head(s) + SumSeq(Tail(s))

SeqToSet(s) == {s[i] : i \in 1..Len(s)}

(***************************************************************************)
(* ResultComparator: tables fixed by __init__                              *)
(***************************************************************************)
\* the keys of self.test_definitions, in dictionary order
TestKeys ==
    <<"single_inserts", "batch_inserts", "concurrent_writes",
      "updates", "point_reads", "range_reads">>

\* self.test_definitions[key]['metrics']
test_definitions ==
    [k \in SeqToSet(TestKeys) |->
        CASE k = "single_inserts" ->
                <<"tps", "avg_latency_ms", "median_latency_ms",
                  "p95_latency_ms", "p99_latency_ms">>
          [] k = "batch_inserts" ->
                <<"tps", "avg_batch_latency_ms", "p95_batch_latency_ms">>
          [] k = "concurrent_writes" ->
                <<"tps", "avg_latency_ms", "median_latency_ms",
                  "p95_latency_ms", "p99_latency_ms">>
          [] k = "updates" ->
                <<"tps", "avg_latency_ms", "p95_latency_ms">>
          [] k = "point_reads" ->
                <<"qps", "avg_latency_ms", "median_latency_ms",
                  "p95_latency_ms", "p99_latency_ms">>
          [] k = "range_reads" ->
                <<"qps", "avg_latency_ms", "p95_latency_ms">>]

\* the underscore-separated words of each metric name the comparator can meet
MetricWords ==
    [m \in {"tps", "qps", "avg_latency_ms", "median_latency_ms",
            "p95_latency_ms", "p99_latency_ms", "avg_batch_latency_ms",
            "p95_batch_latency_ms", "total_time_sec"} |->
        CASE m = "tps" -> {"tps"}
          [] m = "qps" -> {"qps"}
          [] m = "avg_latency_ms" -> {"avg", "latency", "ms"}
          [] m = "median_latency_ms" -> {"median", "latency", "ms"}
          [] m = "p95_latency_ms" -> {"p95", "latency", "ms"}
          [] m = "p99_latency_ms" -> {"p99", "latency", "ms"}
          [] m = "avg_batch_latency_ms" -> {"avg", "batch", "latency", "ms"}
          [] m = "p95_batch_latency_ms" -> {"p95", "batch", "latency", "ms"}
          [] m = "total_time_sec" -> {"total", "time", "sec"}]

\* _calculate_summary's local lists
write_tests == <<"single_inserts", "batch_inserts", "concurrent_writes", "updates">>

read_tests == <<"point_reads", "range_reads">>

\* the top-level keys a result file is read through
MetaKeys == {"label", "host", "database", "timestamp", "results"}

\* 'key in result' / result['results'][...]
HasResults(r) == "results" \in r.keys

TestIn(r, test) == test \in DOMAIN r.results

InBoth(test) == TestIn(result1, test) /\ TestIn(result2, test)

\* __init__: label = label or result.get('label', default)
InitLabel(arg, r, default) ==
    IF arg # "" THEN arg
    ELSE IF "label" \in r.keys THEN r.label ELSE default

(***************************************************************************)
(* calculate_difference, is_latency_metric                                 *)
(***************************************************************************)
is_latency_metric(metric) ==
    "latency" \in MetricWords[metric] \/ "time" \in MetricWords[metric]

\* (mutation) the percentage difference without abs()
DiffPct_signed(val1, val2) == RatTimes(RatDivInt(val1 - val2, val2), 100)

\* (mutation) the percentage difference relative to the first value
DiffPct_overFirst(val1, val2) ==
    IF val1 = 0 THEN Rat(0, 1)
    ELSE RatAbs(RatTimes(RatDivInt(val1 - val2, val1), 100))

\* abs(((val1 - val2) / val2) * 100), val2 # 0
DiffPct(val1, val2) == RatAbs(RatTimes(RatDivInt(val1 - val2, val2), 100))

\* (mutation) '>' where the code has '>='
Winner_strict(diff_pct, val1, val2, lower_is_better) ==
    IF RatGeInt(diff_pct, threshold) /\ ~RatEq(diff_pct, Rat(threshold, 1))
    THEN IF lower_is_better
         THEN (IF val1 < val2 THEN label1 ELSE label2)
         ELSE (IF val1 > val2 THEN label1 ELSE label2)
    ELSE ""

\* the winner branch of calculate_difference
Winner(diff_pct, val1, val2, lower_is_better) ==
    IF RatGeInt(diff_pct, threshold)
    THEN IF lower_is_better
         THEN (IF val1 < val2 THEN label1 ELSE label2)
         ELSE (IF val1 > val2 THEN label1 ELSE label2)
    ELSE ""

calculate_difference(val1, val2, lower_is_better) ==
    IF val2 = 0
    THEN [diff_pct |-> Rat(0, 1), winner |-> ""]
    ELSE LET diff_pct == DiffPct(val1, val2)
         IN  [diff_pct |-> diff_pct,
              winner |-> Winner(diff_pct, val1, val2, lower_is_better)]

(***************************************************************************)
(* _calculate_summary                                                      *)
(***************************************************************************)
Has(r, test, metric) == metric \in DOMAIN r.results[test]

\* the tests of `tests` found in both results, in list order
Paired(tests) == SelectSeq(tests, InBoth)

\* [r['results'][t][metric] for t in tests]
Column(r, tests, metric) == [i \in 1..Len(tests) |-> r.results[tests[i]][metric]]

\* sum(xs) / len(xs), and the 0.0 the summary starts with when xs is empty
Mean(xs) == IF xs = <<>> THEN Rat(0, 1) ELSE Rat(SumSeq(xs), Len(xs))

\* a KeyError of _calculate_summary: a test in both results without its
\* throughput field
SummaryKeyError ==
    \/ \E i \in 1..Len(Paired(write_tests)) :
            ~Has(result1, Paired(write_tests)[i], "tps")
         \/ ~Has(result2, Paired(write_tests)[i], "tps")
    \/ \E i \in 1..Len(Paired(read_tests)) :
            ~Has(result1, Paired(read_tests)[i], "qps")
         \/ ~Has(result2, Paired(read_tests)[i], "qps")

\* (mutation) each side averaged over its own tests, unpaired
calculate_summary_unpaired ==
    LET w  == Paired(write_tests)
        r  == Paired(read_tests)
        w1 == SelectSeq(write_tests, LAMBDA t : TestIn(result1, t) /\ Has(result1, t, "tps"))
        w2 == SelectSeq(write_tests, LAMBDA t : TestIn(result2, t) /\ Has(result2, t, "tps"))
        r1 == SelectSeq(read_tests, LAMBDA t : TestIn(result1, t) /\ Has(result1, t, "qps"))
        r2 == SelectSeq(read_tests, LAMBDA t : TestIn(result2, t) /\ Has(result2, t, "qps"))
    IN  [write_tests   |-> w,
         read_tests    |-> r,
         db1_write_tps |-> Mean(Column(result1, w1, "tps")),
         db2_write_tps |-> Mean(Column(result2, w2, "tps")),
         db1_read_qps  |-> Mean(Column(result1, r1, "qps")),
         db2_read_qps  |-> Mean(Column(result2, r2, "qps"))]

\* the summary dictionary (when no KeyError is raised)
calculate_summary ==
    LET w == Paired(write_tests)
        r == Paired(read_tests)
    IN  [write_tests   |-> w,
         read_tests    |-> r,
         db1_write_tps |-> Mean(Column(result1, w, "tps")),
         db2_write_tps |-> Mean(Column(result2, w, "tps")),
         db1_read_qps  |-> Mean(Column(result1, r, "qps")),
         db2_read_qps  |-> Mean(Column(result2, r, "qps"))]

(***************************************************************************)
(* The per-test, per-metric loop shared by the three report formats        *)
(***************************************************************************)
\* (mutation) the loop stops one test short
ComparedKeys_short ==
    {k \in SeqToSet(SubSeq(TestKeys, 1, Len(TestKeys) - 1)) : InBoth(k)}

\* test keys that pass 'if test_key not in result1 or not in result2: continue'
ComparedKeys == {k \in SeqToSet(TestKeys) : InBoth(k)}

\* metrics that pass 'if metric not in r1 or metric not in r2: continue'
ComparedMetrics(k) ==
    {m \in SeqToSet(test_definitions[k]) : Has(result1, k, m) /\ Has(result2, k, m)}

\* winner_id of compare_json
WinnerId(diff_pct, val1, val2, lower_is_better) ==
    IF RatGeInt(RatAbs(diff_pct), threshold)
    THEN IF lower_is_better
         THEN (IF val1 < val2 THEN 1 ELSE 2)
         ELSE (IF val1 > val2 THEN 1 ELSE 2)
    ELSE 0

\* one row of compare_table / compare_markdown
Row(k, m) ==
    LET val1 == result1.results[k][m]
        val2 == result2.results[k][m]
        d    == calculate_difference(val1, val2, is_latency_metric(m))
    IN  [val1 |-> val1, val2 |-> val2, diff_pct |-> d.diff_pct, winner |-> d.winner]

\* one entry of compare_json's test_comparison
JsonEntry(k, m) ==
    LET val1 == result1.results[k][m]
        val2 == result2.results[k][m]
        lower_is_better == is_latency_metric(m)
        d    == calculate_difference(val1, val2, lower_is_better)
    IN  [database1_value |-> val1,
         database2_value |-> val2,
         difference_pct  |-> Round2(d.diff_pct),
         winner          |-> WinnerId(d.diff_pct, val1, val2, lower_is_better)]

\* a KeyError on the metadata every format prints first
MetaKeyError ==
    \E r \in {result1, result2} :
        ~({"host", "database", "timestamp"} \subseteq r.keys) \/ ~HasResults(r)

(***************************************************************************)
(* compare_table / compare_markdown: summary section and winner lines      *)
(***************************************************************************)
\* abs((db1 - db2) / db2 * 100)
SummaryDiff(db1, db2) == RatAbs(RatTimes(RatDiv(RatSub(db1, db2), db2), 100))

\* the 'Difference:' lines; each divides by the second database's average
DiffLinesError(summary) ==
    \/ summary.write_tests # <<>> /\ RatIsZero(summary.db2_write_tps)
    \/ summary.read_tests # <<>> /\ RatIsZero(summary.db2_read_qps)

\* if tests and db1 > db2: ... elif tests: ...   (one WINNER line, or none)
WinnerLine(tests, db1, db2) ==
    IF tests = <<>> THEN <<>>
    ELSE IF RatGt(db1, db2)
         THEN <<[winner |-> label1,
                 by |-> RatTimes(RatDiv(RatSub(db1, db2), db2), 100)]>>
         ELSE <<[winner |-> label2,
                 by |-> RatTimes(RatDiv(RatSub(db2, db1), db1), 100)]>>

\* the division of the WINNER line that is taken
WinnerLineError(tests, db1, db2) ==
    /\ tests # <<>>
    /\ IF RatGt(db1, db2) THEN RatIsZero(db2) ELSE RatIsZero(db1)

WinnerLinesError(summary) ==
    \/ WinnerLineError(summary.write_tests, summary.db1_write_tps, summary.db2_write_tps)
    \/ WinnerLineError(summary.read_tests, summary.db1_read_qps, summary.db2_read_qps)

(***************************************************************************)
(* _generate_key_takeaways                                                 *)
(***************************************************************************)
MissingInEither(test, metric) ==
    InBoth(test) /\ (~Has(result1, test, metric) \/ ~Has(result2, test, metric))

\* "ok", or the first exception the takeaways raise, in source order
TakeawaysStatus ==
    IF MissingInEither("single_inserts", "tps")
       \/ MissingInEither("single_inserts", "avg_latency_ms") THEN "KeyError"
    ELSE IF MissingInEither("batch_inserts", "tps") THEN "KeyError"
    ELSE IF InBoth("batch_inserts") /\ result2.results["batch_inserts"]["tps"] = 0
         THEN "ZeroDivisionError"
    ELSE IF MissingInEither("concurrent_writes", "tps")
            \/ MissingInEither("concurrent_writes", "p95_latency_ms") THEN "KeyError"
    ELSE IF MissingInEither("point_reads", "qps")
            \/ MissingInEither("point_reads", "avg_latency_ms") THEN "KeyError"
    ELSE IF MissingInEither("range_reads", "qps") THEN "KeyError"
    ELSE "ok"

\* the batch takeaway's '-> winner is x% faster' line, or none
BatchFasterLine ==
    IF ~InBoth("batch_inserts") THEN <<>>
    ELSE LET t1   == result1.results["batch_inserts"]["tps"]
             t2   == result2.results["batch_inserts"]["tps"]
             diff == RatTimes(RatDivInt(t1 - t2, t2), 100)
         IN  IF RatGeInt(RatAbs(diff), threshold)
             THEN <<[winner |-> IF diff.num > 0 THEN label1 ELSE label2,
                     by |-> RatAbs(diff)]>>
             ELSE <<>>

(***************************************************************************)
(* The three report formats, as the value returned or the error raised     *)
(***************************************************************************)
Raised(op, error) == [op |-> op, status |-> error]

Rows == [k \in ComparedKeys |-> [m \in ComparedMetrics(k) |-> Row(k, m)]]

SummarySection(summary) ==
    [summary      |-> summary,
     write_diff   |-> IF summary.write_tests = <<>> THEN <<>>
                      ELSE <<SummaryDiff(summary.db1_write_tps, summary.db2_write_tps)>>,
     read_diff    |-> IF summary.read_tests = <<>> THEN <<>>
                      ELSE <<SummaryDiff(summary.db1_read_qps, summary.db2_read_qps)>>,
     write_winner |-> WinnerLine(summary.write_tests,
                                 summary.db1_write_tps, summary.db2_write_tps),
     read_winner  |-> WinnerLine(summary.read_tests,
                                 summary.db1_read_qps, summary.db2_read_qps)]

\* the part compare_table and compare_markdown share
TextReport(op) ==
    IF MetaKeyError THEN Raised(op, "KeyError")
    ELSE IF SummaryKeyError THEN Raised(op, "KeyError")
    ELSE IF DiffLinesError(calculate_summary) THEN Raised(op, "ZeroDivisionError")
    ELSE IF WinnerLinesError(calculate_summary) THEN Raised(op, "ZeroDivisionError")
    ELSE [op |-> op, status |-> "ok", rows |-> Rows,
          overall |-> SummarySection(calculate_summary)]

compare_markdown == TextReport("compare_markdown")

compare_table ==
    LET t == TextReport("compare_table")
    IN  IF t.status # "ok" THEN t
        ELSE IF TakeawaysStatus # "ok" THEN Raised("compare_table", TakeawaysStatus)
        ELSE [op |-> "compare_table", status |-> "ok", rows |-> t.rows,
              overall |-> t.overall, batch_faster |-> BatchFasterLine]

compare_json ==
    IF MetaKeyError THEN Raised("compare_json", "KeyError")
    ELSE IF SummaryKeyError THEN Raised("compare_json", "KeyError")
    ELSE [op |-> "compare_json", status |-> "ok",
          threshold |-> threshold,
          database1 |-> label1,
          database2 |-> label2,
          comparisons |->
              [k \in ComparedKeys |-> [m \in ComparedMetrics(k) |-> JsonEntry(k, m)]],
          summary |-> calculate_summary]

(***************************************************************************)
(* MySQLPerformanceTester: connection pool and the insert loop             *)
(***************************************************************************)
\* bounds of the workload arguments
MaxInserts == 3

MaxCommitEvery == 3

MaxThreads == 2

MaxWrites == 2

NoConn == 0

\* main() is not running
NoSession == [pc |-> "none"]

\* locals of a method that has not started
NoFrame == [pc |-> "none", conn |-> NoConn, i |-> 0, latencies |-> <<>>, log |-> <<>>]

NoDisp == [pc |-> "none", all_latencies |-> <<>>, completed |-> 0, consumed |-> {}]

NoCall == [method |-> "none", status |-> "none", exception |-> ""]

\* MySQLConnectionPool(pool_size=...): every connection free, no transaction
NewPool(pool_size) == [c \in 1..pool_size |-> [free |-> TRUE, pending |-> 0]]

FreeConns == {c \in DOMAIN conns : conns[c].free}

\* a change of the shared database state together with a method's locals
Effect(f, cs, rs) == [frame |-> f, conns |-> cs, rows |-> rs]

\* the except branch is entered: the locals are abandoned as they are, the
\* connection is neither committed nor closed
Failed(f) == Effect([f EXCEPT !.pc = "except"], conns, rows)

\* (mutation) the pool hands out its first connection whether taken or not
GetConnection_shared(f) ==
    {Failed(f)} \cup
    (IF DOMAIN conns = {} THEN {}
     ELSE {Effect([f EXCEPT !.pc = "loop", !.conn = 1],
                  [conns EXCEPT ![1].free = FALSE], rows)})

\* conn = self.get_connection(); cursor = conn.cursor(); latencies = []
\* The pool hands out a free connection, raises PoolError when none is
\* free, and connecting may fail with an Error.
GetConnection(f) ==
    {Failed(f)} \cup
    (IF FreeConns = {} THEN {}
     ELSE LET c == CHOOSE x \in FreeConns : \A y \in FreeConns : x <= y
          IN  {Effect([f EXCEPT !.pc = "loop", !.conn = c],
                      [conns EXCEPT ![c].free = FALSE], rows)})

\* Python's a % b for b # 0: the result has the sign of b
PyMod(a, b) == IF b > 0 THEN a % b ELSE 0 - ((0 - a) % (0 - b))

\* (mutation) the cadence test on i instead of i + 1
CommitDue_offByOne(i, commit_every) == PyMod(i, commit_every) = 0

\* if (i + 1) % commit_every == 0
CommitDue(i, commit_every) == PyMod(i + 1, commit_every) = 0

\* conn.commit(): the open transaction of the connection becomes rows
Committed(c) == [conns EXCEPT ![c].pending = 0]

\* one pass of 'for i in range(n)': start the timer, cursor.execute(INSERT),
\* commit if due, stop the timer, append the latency.  A latency is recorded
\* as the calls made between the two readings of the clock.
LoopPass(f, n, commit_every) ==
    IF f.i >= n
    THEN { \* range(n) is empty: the loop body is never entered
           Effect([f EXCEPT !.pc = "final_commit"], conns, rows) }
    ELSE
    {Failed(f)} \cup
    (IF commit_every = 0
     THEN { \* execute succeeds, the modulo raises ZeroDivisionError
            Effect([f EXCEPT !.pc = "uncaught", !.log = Append(@, "execute")],
                   [conns EXCEPT ![f.conn].pending = @ + 1], rows) }
     ELSE IF CommitDue(f.i, commit_every)
     THEN { \* execute succeeds, commit fails
            Effect([f EXCEPT !.pc = "except", !.log = Append(@, "execute")],
                   [conns EXCEPT ![f.conn].pending = @ + 1], rows),
            \* execute and commit succeed
            Effect([f EXCEPT !.i = @ + 1,
                             !.pc = IF f.i + 1 < n THEN "loop" ELSE "final_commit",
                             !.log = @ \o <<"execute", "commit">>,
                             !.latencies = Append(@, <<"execute", "commit">>)],
                   Committed(f.conn), rows + conns[f.conn].pending + 1) }
     ELSE { Effect([f EXCEPT !.i = @ + 1,
                             !.pc = IF f.i + 1 < n THEN "loop" ELSE "final_commit",
                             !.log = Append(@, "execute"),
                             !.latencies = Append(@, <<"execute">>)],
                   [conns EXCEPT ![f.conn].pending = @ + 1], rows) })

\* (mutation) no commit after the loop
FinalCommit_skipped(f) ==
    {Failed(f), Effect([f EXCEPT !.pc = "close"], conns, rows)}

\* the conn.commit() after the loop
FinalCommit(f) ==
    {Failed(f),
     Effect([f EXCEPT !.pc = "close", !.log = Append(@, "commit")],
            Committed(f.conn), rows + conns[f.conn].pending)}

\* cursor.close(); conn.close(): the connection goes back to the pool, which
\* rolls back whatever transaction is still open
Close(f) ==
    Effect([f EXCEPT !.pc = "closed", !.conn = NoConn],
           [conns EXCEPT ![f.conn] = [free |-> TRUE, pending |-> 0]], rows)

\* (mutation) storing a result starts the results map afresh
Stored_clearing(kind, row) == [k \in {kind} |-> row]

\* self.results[kind] = row
Stored(kind, row) ==
    [k \in DOMAIN results \cup {kind} |-> IF k = kind THEN row ELSE results[k]]

Apply(e) ==
    /\ frame' = e.frame
    /\ conns' = e.conns
    /\ rows' = e.rows

(***************************************************************************)
(* test_single_inserts(num_inserts, commit_every)                          *)
(***************************************************************************)
Running(method) == call = [method |-> method, status |-> "running", exception |-> ""]

SI_GetConnection ==
    /\ Running("test_single_inserts") /\ frame.pc = "get_connection"
    /\ \E e \in GetConnection(frame) : Apply(e)
    /\ UNCHANGED <<cmpVars, session, args, call, disp, workers, results>>

SI_LoopPass ==
    /\ Running("test_single_inserts") /\ frame.pc = "loop"
    /\ \E e \in LoopPass(frame, args.num_inserts, args.commit_every) : Apply(e)
    /\ UNCHANGED <<cmpVars, session, args, call, disp, workers, results>>

SI_FinalCommit ==
    /\ Running("test_single_inserts") /\ frame.pc = "final_commit"
    /\ \E e \in FinalCommit(frame) : Apply(e)
    /\ UNCHANGED <<cmpVars, session, args, call, disp, workers, results>>

\* cursor.close(); conn.close(); self.results['single_inserts'] = {...}
\* statistics.mean of no latencies raises StatisticsError, which is no mysql
\* Error and leaves the method with nothing stored.
SI_Store ==
    /\ Running("test_single_inserts") /\ frame.pc = "close"
    /\ Apply(Close(frame))
    /\ IF frame.latencies = <<>>
       THEN /\ call' = [call EXCEPT !.status = "raised", !.exception = "StatisticsError"]
            /\ results' = results
       ELSE /\ results' = Stored("single_inserts",
                                 [records |-> args.num_inserts,
                                  latencies |-> frame.latencies,
                                  commit_every |-> args.commit_every])
            /\ call' = [call EXCEPT !.status = "returned"]
    /\ UNCHANGED <<cmpVars, session, args, disp, workers>>

\* except Error as e: print(...); raise
SI_Except ==
    /\ Running("test_single_inserts") /\ frame.pc = "except"
    /\ call' = [call EXCEPT !.status = "raised", !.exception = "Error"]
    /\ frame' = [frame EXCEPT !.pc = "raised"]
    /\ UNCHANGED <<cmpVars, session, args, disp, workers, conns, rows, results>>

\* an exception that is no mysql Error passes the except clause
SI_Uncaught ==
    /\ Running("test_single_inserts") /\ frame.pc = "uncaught"
    /\ call' = [call EXCEPT !.status = "raised", !.exception = "ZeroDivisionError"]
    /\ frame' = [frame EXCEPT !.pc = "raised"]
    /\ UNCHANGED <<cmpVars, session, args, disp, workers, conns, rows, results>>

(***************************************************************************)
(* concurrent_writer(thread_id, num_writes, commit_every)                  *)
(***************************************************************************)
\* a future: the locals of its worker and, once done, what it holds
Future(f, state, result, exception) ==
    [frame |-> f, state |-> state, result |-> result, exception |-> exception]

ApplyWorker(t, e) ==
    /\ workers' = [workers EXCEPT ![t].frame = e.frame]
    /\ conns' = e.conns
    /\ rows' = e.rows

WorkerAt(t, pc) ==
    /\ t \in DOMAIN workers
    /\ workers[t].state = "running"
    /\ workers[t].frame.pc = pc

CW_GetConnection(t) ==
    /\ WorkerAt(t, "get_connection")
    /\ \E e \in GetConnection(workers[t].frame) : ApplyWorker(t, e)
    /\ UNCHANGED <<cmpVars, session, args, call, frame, disp, results>>

CW_LoopPass(t) ==
    /\ WorkerAt(t, "loop")
    /\ \E e \in LoopPass(workers[t].frame, args.writes_per_thread, args.commit_every) :
            ApplyWorker(t, e)
    /\ UNCHANGED <<cmpVars, session, args, call, frame, disp, results>>

CW_FinalCommit(t) ==
    /\ WorkerAt(t, "final_commit")
    /\ \E e \in FinalCommit(workers[t].frame) : ApplyWorker(t, e)
    /\ UNCHANGED <<cmpVars, session, args, call, frame, disp, results>>

\* cursor.close(); conn.close(); return latencies
CW_Return(t) ==
    /\ WorkerAt(t, "close")
    /\ LET e == Close(workers[t].frame)
       IN  /\ workers' = [workers EXCEPT
                              ![t] = Future(e.frame, "finished", e.frame.latencies, FALSE)]
           /\ conns' = e.conns
           /\ rows' = e.rows
    /\ UNCHANGED <<cmpVars, session, args, call, frame, disp, results>>

\* (mutation) the except branch lets the error out of the worker
Caught_reraised(f) == Future([f EXCEPT !.pc = "raised"], "finished", <<>>, TRUE)

\* except Error as e: print(...); return []
Caught(f) == Future([f EXCEPT !.pc = "caught"], "finished", <<>>, FALSE)

CW_Except(t) ==
    /\ WorkerAt(t, "except")
    /\ workers' = [workers EXCEPT ![t] = Caught(workers[t].frame)]
    /\ UNCHANGED <<cmpVars, session, args, call, frame, disp, conns, rows, results>>

\* an exception that is no mysql Error ends the worker and stays in its future
CW_Uncaught(t) ==
    /\ WorkerAt(t, "uncaught")
    /\ workers' = [workers EXCEPT
                      ![t] = Future([workers[t].frame EXCEPT !.pc = "raised"],
                                    "finished", <<>>, TRUE)]
    /\ UNCHANGED <<cmpVars, session, args, call, frame, disp, conns, rows, results>>

(***************************************************************************)
(* test_concurrent_writes(num_threads, writes_per_thread, commit_every)    *)
(***************************************************************************)
\* with ThreadPoolExecutor(max_workers=num_threads): futures = [submit(...)]
\* Every task gets its own thread at once.  ThreadPoolExecutor raises
\* ValueError for max_workers <= 0, which passes the except clause.
TCW_Submit ==
    /\ Running("test_concurrent_writes") /\ disp.pc = "submit"
    /\ IF args.num_threads <= 0
       THEN /\ disp' = [disp EXCEPT !.pc = "raised"]
            /\ call' = [call EXCEPT !.status = "raised", !.exception = "ValueError"]
            /\ workers' = workers
       ELSE /\ workers' = [t \in 0..(args.num_threads - 1) |->
                              Future([NoFrame EXCEPT !.pc = "get_connection"],
                                     "running", <<>>, FALSE)]
            /\ disp' = [disp EXCEPT !.pc = "as_completed"]
            /\ call' = call
    /\ UNCHANGED <<cmpVars, session, args, frame, conns, rows, results>>

Unconsumed == {t \in DOMAIN workers : t \notin disp.consumed}

\* (mutation) the sample of a worker replaces what was merged before
TCW_Collect_overwrite ==
    /\ Running("test_concurrent_writes") /\ disp.pc = "as_completed"
    /\ \E t \in Unconsumed :
          /\ workers[t].state = "finished"
          /\ disp' = [disp EXCEPT
                          !.all_latencies = workers[t].result,
                          !.completed = @ + 1,
                          !.consumed = @ \cup {t},
                          !.pc = IF Unconsumed = {t} THEN "finish" ELSE @]
    /\ UNCHANGED <<cmpVars, session, args, call, frame, workers, conns, rows, results>>

\* for future in as_completed(futures): result = future.result(); ...
\* A finished future not seen yet is taken; an exception it holds is raised
\* again here.
TCW_Collect ==
    /\ Running("test_concurrent_writes") /\ disp.pc = "as_completed"
    /\ \E t \in Unconsumed :
          /\ workers[t].state = "finished"
          /\ IF workers[t].exception
             THEN disp' = [disp EXCEPT !.pc = "shutdown", !.consumed = @ \cup {t}]
             ELSE disp' = [disp EXCEPT
                              !.all_latencies = @ \o workers[t].result,
                              !.completed = @ + 1,
                              !.consumed = @ \cup {t},
                              !.pc = IF Unconsumed = {t} THEN "finish" ELSE @]
    /\ UNCHANGED <<cmpVars, session, args, call, frame, workers, conns, rows, results>>

\* an exception leaves the with block: the executor waits for every worker,
\* then the exception (no mysql Error) passes the except clause
TCW_Shutdown ==
    /\ Running("test_concurrent_writes") /\ disp.pc = "shutdown"
    /\ \A t \in DOMAIN workers : workers[t].state = "finished"
    /\ disp' = [disp EXCEPT !.pc = "raised"]
    /\ call' = [call EXCEPT !.status = "raised", !.exception = "ZeroDivisionError"]
    /\ UNCHANGED <<cmpVars, session, args, frame, workers, conns, rows, results>>

\* (mutation) the writes counted are those whose latencies were merged
total_writes_merged(num_threads, writes_per_thread) == Len(disp.all_latencies)

\* total_writes = num_threads * writes_per_thread
total_writes(num_threads, writes_per_thread) == num_threads * writes_per_thread

\* after the with block: 'if not all_latencies: return', else store the
\* result; 'tps' is round(total_writes / total_time, 2), kept as its two terms
TCW_Finish ==
    /\ Running("test_concurrent_writes") /\ disp.pc = "finish"
    /\ disp' = [disp EXCEPT !.pc = "returned"]
    /\ call' = [call EXCEPT !.status = "returned"]
    /\ results' =
          IF disp.all_latencies = <<>> THEN results
          ELSE Stored("concurrent_writes",
                      [records |-> total_writes(args.num_threads, args.writes_per_thread),
                       tps |-> [writes |-> total_writes(args.num_threads,
                                                        args.writes_per_thread),
                                time |-> "total_time"],
                       threads |-> args.num_threads,
                       writes_per_thread |-> args.writes_per_thread,
                       latencies |-> disp.all_latencies,
                       commit_every |-> args.commit_every])
    /\ UNCHANGED <<cmpVars, session, args, frame, workers, conns, rows>>

(***************************************************************************)
(* Statistics of a latency sample: calculate_percentile, statistics.mean,  *)
(* statistics.median.  Latencies are whole milliseconds; a statistic is an *)
(* exact rational.                                                         *)
(***************************************************************************)
\* len(data) >= 100: the size from which statistics.quantiles is used
QuantilesFrom == 100

\* what a statistic returned or raised
Returned(value) == [status |-> "returned", exception |-> "", value |-> value]

Raises(exception) == [status |-> "raised", exception |-> exception, value |-> Rat(0, 1)]

\* (mutation) the sample is used in the order it was recorded
sorted_unsorted(data) == data

\* sorted(data): position k holds the value v with fewer than k elements
\* below v and at least k elements not above it
sorted(data) ==
    [k \in 1..Len(data) |->
        CHOOSE v \in SeqToSet(data) :
            /\ Cardinality({i \in 1..Len(data) : data[i] < v}) < k
            /\ Cardinality({i \in 1..Len(data) : data[i] <= v}) >= k]

\* statistics.quantiles(data, n=n)[i - 1], method 'exclusive'
quantiles(data, n, i) ==
    LET s     == sorted(data)
        ld    == Len(s)
        m     == ld + 1
        j0    == (i * m) \div n
        j     == IF j0 < 1 THEN 1 ELSE IF j0 > ld - 1 THEN ld - 1 ELSE j0
        delta == i * m - j * n
    IN  Rat(s[j] * (n - delta) + s[j + 1] * delta, n)

\* the (len, percentile) with len <= 101 and a whole percentile in 0..100
\* whose double product len * (percentile / 100.0) is just below the exact
\* whole number len * percentile / 100 (50 * 0.58 = 28.999999999999996)
FloatShort == {<<50, 58>>, <<90, 70>>, <<100, 29>>, <<100, 57>>, <<100, 58>>}

\* int(len * (percentile / 100.0)), computed in doubles and truncated
float_index(len, percentile) ==
    ((len * percentile) \div 100) - (IF <<len, percentile>> \in FloatShort THEN 1 ELSE 0)

\* MySQLPerformanceTester.calculate_percentile(data, percentile)
calculate_percentile(data, percentile) ==
    IF data = <<>> THEN Returned(Rat(0, 1))
    ELSE IF Len(data) = 1 THEN Returned(Rat(data[1], 1))
    ELSE IF Len(data) >= QuantilesFrom /\ percentile = 95
         THEN Returned(quantiles(data, 20, 19))
    ELSE IF Len(data) >= QuantilesFrom /\ percentile = 99
         THEN Returned(quantiles(data, 100, 99))
    ELSE LET sorted_data == sorted(data)
             index       == float_index(Len(sorted_data), percentile)
             last        == Len(sorted_data) - 1
         IN  \* sorted_data[min(index, len - 1)], counted from 0
             Returned(Rat(sorted_data[(IF index < last THEN index ELSE last) + 1], 1))

\* statistics.mean(data)
mean(data) ==
    IF data = <<>> THEN Raises("StatisticsError")
    ELSE Returned(Rat(SumSeq(data), Len(data)))

\* statistics.median(data)
median(data) ==
    IF data = <<>> THEN Raises("StatisticsError")
    ELSE LET s == sorted(data)
             n == Len(s)
         IN  IF n % 2 = 1 THEN Returned(Rat(s[(n \div 2) + 1], 1))
             ELSE Returned(Rat(s[n \div 2] + s[(n \div 2) + 1], 2))

\* the call of a statistic that has ended with r
Computed(method, r) ==
    [method |-> method, status |-> r.status, exception |-> r.exception, value |-> r.value]

\* min(data) and max(data) of a non-empty sample
min(data) == CHOOSE v \in SeqToSet(data) : \A w \in SeqToSet(data) : v <= w

max(data) == CHOOSE v \in SeqToSet(data) : \A w \in SeqToSet(data) : v >= w

\* the latency entries of a result row, each round(..., 2) in hundredths;
\* statistics.mean is evaluated first and raises on an empty sample
latency_statistics(latencies) ==
    IF latencies = <<>> THEN Raises("StatisticsError")
    ELSE [status            |-> "returned",
          exception         |-> "",
          value             |-> Rat(Round2(mean(latencies).value), 100),
          avg_latency_ms    |-> Round2(mean(latencies).value),
          median_latency_ms |-> Round2(median(latencies).value),
          p95_latency_ms    |-> Round2(calculate_percentile(latencies, 95).value),
          p99_latency_ms    |-> Round2(calculate_percentile(latencies, 99).value),
          min_latency_ms    |-> Round2(Rat(min(latencies), 1)),
          max_latency_ms    |-> Round2(Rat(max(latencies), 1))]

CalculatePercentile ==
    /\ args.method = "statistics" /\ call = NoCall
    /\ call' = Computed("calculate_percentile",
                        calculate_percentile(args.data, args.percentile))
    /\ UNCHANGED <<cmpVars, session, args, frame, disp, workers, conns, rows, results>>

StatisticsMean ==
    /\ args.method = "statistics" /\ call = NoCall
    /\ call' = Computed("mean", mean(args.data))
    /\ UNCHANGED <<cmpVars, session, args, frame, disp, workers, conns, rows, results>>

StatisticsMedian ==
    /\ args.method = "statistics" /\ call = NoCall
    /\ call' = Computed("median", median(args.data))
    /\ UNCHANGED <<cmpVars, session, args, frame, disp, workers, conns, rows, results>>

\* the six latency entries a test computes from its sample
LatencyStatistics ==
    /\ args.method = "statistics" /\ call = NoCall
    /\ call' = latency_statistics(args.data) @@ [method |-> "latency_statistics"]
    /\ UNCHANGED <<cmpVars, session, args, frame, disp, workers, conns, rows, results>>

(***************************************************************************)
(* Inputs of the comparator: two loaded result files, the label arguments  *)
(* and the threshold                                                       *)
(***************************************************************************)
\* the largest number of test kinds in one result file
MaxKinds == 2

\* --threshold default
DefaultThreshold == 10

Values == {0 - 50, 0, 40, 50, 100, 120}

Thresholds == {0, DefaultThreshold, 20, 25}

\* the six kinds the tester writes, and one the comparator does not know
FileKinds == SeqToSet(TestKeys) \cup {"mixed_workload"}

ThroughputOf(k) == IF k \in SeqToSet(read_tests) THEN "qps" ELSE "tps"

MetricsOf(k) ==
    IF k \in SeqToSet(TestKeys) THEN SeqToSet(test_definitions[k])
    ELSE {"tps", "avg_latency_ms"}

\* a result row with every metric of its kind
FullRow(k, v) == [m \in MetricsOf(k) |-> IF m = ThroughputOf(k) THEN v ELSE 100]

\* f without the key x
Without(f, x) == [y \in DOMAIN f \ {x} |-> f[y]]

\* throughput figures of four result files
Profiles == {"a", "b", "zero", "partial"}

ProfileValue(p, k) ==
    CASE p = "zero" -> 0
      [] p = "b" ->
            (CASE k = "single_inserts" -> 400 [] k = "batch_inserts" -> 900
               [] k = "concurrent_writes" -> 0 [] k = "updates" -> 350
               [] k = "point_reads" -> 800 [] k = "range_reads" -> 0
               [] OTHER -> 60)
      [] OTHER ->
            (CASE k = "single_inserts" -> 500 [] k = "batch_inserts" -> 900
               [] k = "concurrent_writes" -> 700 [] k = "updates" -> 300
               [] k = "point_reads" -> 1000 [] k = "range_reads" -> 200
               [] OTHER -> 50)

\* the "partial" file lacks a throughput field and a latency field
ProfileRow(p, k) ==
    IF p = "partial" /\ k = "updates"
    THEN Without(FullRow(k, ProfileValue(p, k)), "tps")
    ELSE IF p = "partial" /\ k = "point_reads"
    THEN Without(FullRow(k, ProfileValue(p, k)), "avg_latency_ms")
    ELSE FullRow(k, ProfileValue(p, k))

ResultFile(keys, label, tests) == [keys |-> keys, label |-> label, results |-> tests]

\* (label argument 1, label argument 2, 'label' of file 1, 'label' of file 2);
\* "" stands for an argument not given / a file without the key
LabelCases ==
    {<<"", "", "EC2", "RDS">>,
     <<"", "", "MySQL", "MySQL">>,
     <<"Production", "Staging", "MySQL", "MySQL">>,
     <<"", "", "", "">>}

FileKeys(label) == IF label = "" THEN MetaKeys \ {"label"} ELSE MetaKeys

NoOutput == [op |-> "none", status |-> "none"]

\* no tester is part of a comparison
NoTester ==
    /\ session = NoSession
    /\ args = [method |-> "none"]
    /\ call = NoCall
    /\ frame = NoFrame
    /\ disp = NoDisp
    /\ workers = <<>>
    /\ conns = <<>>
    /\ rows = 0
    /\ results = <<>>

\* ResultComparator(result1, result2, label1, label2, threshold)
Construct(r1, r2, arg1, arg2, th) ==
    /\ result1 = r1
    /\ result2 = r2
    /\ label1 = InitLabel(arg1, r1, "Database 1")
    /\ label2 = InitLabel(arg2, r2, "Database 2")
    /\ threshold = th
    /\ out = NoOutput
    /\ NoTester

\* two files with one test kind each, differing in one metric
InitMetric ==
    \E k \in SeqToSet(TestKeys), v1 \in Values, v2 \in Values,
       th \in Thresholds, lc \in LabelCases :
        \E m \in MetricsOf(k) :
            Construct(
                ResultFile(FileKeys(lc[3]), lc[3], k :> [FullRow(k, 100) EXCEPT ![m] = v1]),
                ResultFile(FileKeys(lc[4]), lc[4], k :> [FullRow(k, 100) EXCEPT ![m] = v2]),
                lc[1], lc[2], th)

KindSets == {S \in SUBSET FileKinds : Cardinality(S) <= MaxKinds}

\* two files with up to MaxKinds test kinds each; the first may lack 'host'
InitKinds ==
    \E S1 \in KindSets, S2 \in KindSets, p1 \in Profiles, p2 \in Profiles,
       keys1 \in {MetaKeys, MetaKeys \ {"host"}} :
        Construct(
            ResultFile(keys1, "EC2", [k \in S1 |-> ProfileRow(p1, k)]),
            ResultFile(MetaKeys, "RDS", [k \in S2 |-> ProfileRow(p2, k)]),
            "", "", DefaultThreshold)

InitCompare == InitMetric \/ InitKinds

(***************************************************************************)
(* Comparator operations                                                   *)
(***************************************************************************)
\* a direct call of calculate_difference on one metric of a test in both files
CalculateDifference ==
    /\ out = NoOutput
    /\ \E k \in ComparedKeys :
        \E m \in ComparedMetrics(k) :
            LET val1 == result1.results[k][m]
                val2 == result2.results[k][m]
                d    == calculate_difference(val1, val2, is_latency_metric(m))
            IN  /\ out' = [op |-> "calculate_difference", status |-> "ok",
                           metric |-> m, val1 |-> val1, val2 |-> val2,
                           diff_pct |-> d.diff_pct, winner |-> d.winner]
                /\ UNCHANGED <<result1, result2, label1, label2, threshold, testerVars>>

CompareTable ==
    /\ out = NoOutput
    /\ out' = compare_table
    /\ UNCHANGED <<result1, result2, label1, label2, threshold, testerVars>>

CompareMarkdown ==
    /\ out = NoOutput
    /\ out' = compare_markdown
    /\ UNCHANGED <<result1, result2, label1, label2, threshold, testerVars>>

\* (mutation) compare_json stores the label it uses into the first input
CompareJson_inplace ==
    /\ out = NoOutput
    /\ out' = compare_json
    /\ result1' = [result1 EXCEPT !.label = label1, !.keys = @ \cup {"label"}]
    /\ UNCHANGED <<result2, label1, label2, threshold, testerVars>>

CompareJson ==
    /\ out = NoOutput
    /\ out' = compare_json
    /\ UNCHANGED <<result1, result2, label1, label2, threshold, testerVars>>

NextCompare ==
    \/ CalculateDifference
    \/ CompareTable
    \/ CompareMarkdown
    \/ CompareJson

SpecCompare == InitCompare /\ [][NextCompare]_vars

(***************************************************************************)
(* A tester running one write workload                                     *)
(***************************************************************************)
\* no comparator is part of a benchmark run
NoComparator ==
    /\ result1 = ResultFile({}, "", <<>>)
    /\ result2 = ResultFile({}, "", <<>>)
    /\ label1 = ""
    /\ label2 = ""
    /\ threshold = DefaultThreshold
    /\ out = NoOutput

\* MySQLPerformanceTester(..., pool_size) after setup_test_table()
NewTester(pool_size) ==
    /\ conns = NewPool(pool_size)
    /\ rows = 0
    /\ results = <<>>
    /\ workers = <<>>
    /\ NoComparator

\* tester.test_single_inserts(num_inserts, commit_every)
InitSingleInserts ==
    \E n \in (0 - 1)..MaxInserts, ce \in (0 - 1)..MaxCommitEvery, ps \in 1..MaxThreads :
        /\ NewTester(ps)
        /\ args = [method |-> "test_single_inserts", num_inserts |-> n,
                   commit_every |-> ce, pool_size |-> ps]
        /\ call = [method |-> "test_single_inserts", status |-> "running", exception |-> ""]
        /\ frame = [NoFrame EXCEPT !.pc = "get_connection"]
        /\ disp = NoDisp

\* tester.test_concurrent_writes(num_threads, writes_per_thread, commit_every)
InitConcurrentWrites ==
    \E nt \in 0..MaxThreads, wpt \in 0..MaxWrites, ce \in (0 - 1)..MaxCommitEvery,
       ps \in 1..MaxThreads :
        /\ NewTester(ps)
        /\ args = [method |-> "test_concurrent_writes", num_threads |-> nt,
                   writes_per_thread |-> wpt, commit_every |-> ce, pool_size |-> ps]
        /\ call = [method |-> "test_concurrent_writes", status |-> "running", exception |-> ""]
        /\ frame = NoFrame
        /\ disp = [NoDisp EXCEPT !.pc = "submit"]

InitWrites == session = NoSession /\ (InitSingleInserts \/ InitConcurrentWrites)

NextWrites ==
    \/ SI_GetConnection
    \/ SI_LoopPass
    \/ SI_FinalCommit
    \/ SI_Store
    \/ SI_Except
    \/ SI_Uncaught
    \/ \E t \in 0..(MaxThreads - 1) : CW_GetConnection(t)
    \/ \E t \in 0..(MaxThreads - 1) : CW_LoopPass(t)
    \/ \E t \in 0..(MaxThreads - 1) : CW_FinalCommit(t)
    \/ \E t \in 0..(MaxThreads - 1) : CW_Return(t)
    \/ \E t \in 0..(MaxThreads - 1) : CW_Except(t)
    \/ \E t \in 0..(MaxThreads - 1) : CW_Uncaught(t)
    \/ TCW_Submit
    \/ TCW_Collect
    \/ TCW_Shutdown
    \/ TCW_Finish

SpecWrites == InitWrites /\ [][NextWrites]_vars

(***************************************************************************)
(* A latency sample and the statistics computed on it                      *)
(***************************************************************************)
\* the longest sample enumerated element by element
MaxSample == 3

\* the largest latency of an enumerated sample
MaxLatency == 3

\* the percentiles the workloads ask for, and two others
Percentiles == {95, 99, 50, 58}

\* samples of up to MaxSample latencies
RECURSIVE SamplesOf(_)
SamplesOf(n) ==
    IF n = 0 THEN {<<>>}
    ELSE LET shorter == SamplesOf(n - 1)
         IN  shorter \cup {Append(d, x) : d \in {e \in shorter : Len(e) = n - 1},
                                         x \in 1..MaxLatency}

\* samples large enough for statistics.quantiles (rising, falling,
\* constant), one element short of that, and of 50 elements
LargeSamples ==
    {[i \in 1..n |-> i] : n \in {QuantilesFrom, QuantilesFrom + 1}}
        \cup {[i \in 1..QuantilesFrom |-> QuantilesFrom + 1 - i],
              [i \in 1..QuantilesFrom |-> MaxLatency],
              [i \in 1..(QuantilesFrom - 1) |-> i],
              [i \in 1..(QuantilesFrom - 1) |-> QuantilesFrom - i],
              [i \in 1..50 |-> i], [i \in 1..50 |-> 51 - i]}

InitStatistics ==
    /\ NoComparator
    /\ session = NoSession
    /\ \E data \in SamplesOf(MaxSample) \cup LargeSamples, percentile \in Percentiles :
          args = [method |-> "statistics", data |-> data, percentile |-> percentile]
    /\ call = NoCall
    /\ frame = NoFrame
    /\ disp = NoDisp
    /\ workers = <<>>
    /\ conns = <<>>
    /\ rows = 0
    /\ results = <<>>

NextStatistics ==
    \/ CalculatePercentile
    \/ StatisticsMean
    \/ StatisticsMedian
    \/ LatencyStatistics

SpecStatistics == InitStatistics /\ [][NextStatistics]_vars

(***************************************************************************)
(* main(): setup, the selected tests in order, save, cleanup               *)
(***************************************************************************)
\* the tests in the order main() calls them
write_sequence == <<"single_inserts", "batch_inserts", "concurrent_writes", "updates">>

read_sequence == <<"point_reads", "range_reads">>

\* no result file has been written
NoFile == [written |-> FALSE]

\* the tests selected by --skip-writes / --skip-reads, in order
Selected(skip_writes, skip_reads) ==
    (IF skip_writes THEN <<>> ELSE write_sequence)
        \o (IF skip_reads THEN <<>> ELSE read_sequence)

\* (mutation) main() leaves out the test that comes next
Following_skip(kind) ==
    LET todo == Selected(session.skip_writes, session.skip_reads)
        pos  == IF kind = "setup_test_table" THEN 0
                ELSE CHOOSE i \in 1..Len(todo) : todo[i] = kind
    IN  IF pos + 1 < Len(todo) THEN todo[pos + 2] ELSE "save_results"

\* the statement of main() after test kind (kind = "setup_test_table" for
\* the first test)
Following(kind) ==
    LET todo == Selected(session.skip_writes, session.skip_reads)
        pos  == IF kind = "setup_test_table" THEN 0
                ELSE CHOOSE i \in 1..Len(todo) : todo[i] = kind
    IN  IF pos < Len(todo) THEN todo[pos + 1] ELSE "save_results"

\* (mutation) main() goes on with the next test after an exception
Resume_continue(kind, status) == Following(kind)

\* where main() continues when a call has returned or raised
Resume(kind, status) == IF status = "raised" THEN "except" ELSE Following(kind)

\* how a test method run as a whole ends
Outcome(status, exception, cs, rs, res) ==
    [status |-> status, exception |-> exception, conns |-> cs, rows |-> rs, results |-> res]

\* a connection is taken and never closed
Leaked(c) == [conns EXCEPT ![c].free = FALSE]

\* try: conn = get_connection(); <statements>; conn.close(); <store>
\* except Error: raise.  The method fails at get_connection, or fails at a
\* statement (the connection stays open) with rows \in partial committed, or
\* runs to the end, where 'done' is what it returns or raises after close.
Sequential(partial, done) ==
    {Outcome("raised", "Error", conns, rows, results)} \cup
    (IF FreeConns = {} THEN {}
     ELSE LET c == CHOOSE x \in FreeConns : \A y \in FreeConns : x <= y
          IN  {Outcome("raised", "Error", Leaked(c), rs, results) : rs \in partial}
                 \cup {done})

\* n latencies, each the calls timed
Latencies(n, calls) == [i \in 1..n |-> calls]

\* (mutation) the table of an earlier run is kept with its rows
setup_test_table_outcomes_kept ==
    Sequential({rows}, Outcome("returned", "", conns, rows, results))

\* setup_test_table(): DROP TABLE IF EXISTS, CREATE TABLE, commit, close
setup_test_table_outcomes ==
    Sequential({rows, 0}, Outcome("returned", "", conns, 0, results))

\* test_batch_inserts(num_batches, batch_size): executemany and commit per
\* batch; statistics.mean of no latencies raises StatisticsError
test_batch_inserts_outcomes(num_batches, batch_size) ==
    Sequential({rows + k * batch_size : k \in 0..(num_batches - 1)},
               IF num_batches <= 0
               THEN Outcome("raised", "StatisticsError", conns, rows, results)
               ELSE Outcome("returned", "", conns, rows + num_batches * batch_size,
                            Stored("batch_inserts",
                                   [records |-> num_batches * batch_size,
                                    batches |-> num_batches,
                                    batch_size |-> batch_size,
                                    latencies |-> Latencies(num_batches,
                                                            <<"executemany", "commit">>)])))

\* test_updates(num_updates): UPDATE and commit per update
test_updates_outcomes(num_updates) ==
    Sequential({rows},
               IF num_updates <= 0
               THEN Outcome("raised", "StatisticsError", conns, rows, results)
               ELSE Outcome("returned", "", conns, rows,
                            Stored("updates",
                                   [records |-> num_updates,
                                    latencies |-> Latencies(num_updates,
                                                            <<"execute", "commit">>)])))

\* test_point_reads(num_reads): SELECT MIN(id), MAX(id); on an empty table
\* print and return, with the connection still open; else one SELECT per read
test_point_reads_outcomes(num_reads) ==
    LET c == CHOOSE x \in FreeConns : \A y \in FreeConns : x <= y
    IN  Sequential({rows},
               IF rows = 0
               THEN Outcome("returned", "", Leaked(c), rows, results)
               ELSE IF num_reads <= 0
               THEN Outcome("raised", "StatisticsError", conns, rows, results)
               ELSE Outcome("returned", "", conns, rows,
                            Stored("point_reads",
                                   [records |-> num_reads,
                                    latencies |-> Latencies(num_reads,
                                                            <<"execute", "fetchone">>)])))

\* test_range_reads(num_queries, range_size): one SELECT ... LIMIT per query
test_range_reads_outcomes(num_queries, range_size) ==
    Sequential({rows},
               IF num_queries <= 0
               THEN Outcome("raised", "StatisticsError", conns, rows, results)
               ELSE Outcome("returned", "", conns, rows,
                            Stored("range_reads",
                                   [queries |-> num_queries,
                                    range_size |-> range_size,
                                    latencies |-> Latencies(num_queries,
                                                            <<"execute", "fetchall">>)])))

\* main() is at the call of kind and no call is in progress
MainAt(kind) == session.pc = kind /\ call.status # "running"

\* the record main() keeps of a call that has ended
Ended(kind, status, res) ==
    [kind |-> kind, status |-> status, stored |-> kind \in DOMAIN res]

\* a test method runs as a whole and main() continues
RunWhole(kind, method, o) ==
    /\ call' = [method |-> method, status |-> o.status, exception |-> o.exception]
    /\ conns' = o.conns
    /\ rows' = o.rows
    /\ results' = o.results
    /\ session' = [session EXCEPT
                      !.pc = Resume(kind, o.status),
                      !.started = IF kind = "setup_test_table" THEN @ ELSE Append(@, kind),
                      !.finished = IF kind = "setup_test_table" THEN @
                                   ELSE Append(@, Ended(kind, o.status, o.results)),
                      !.error = IF o.status = "raised" THEN o.exception ELSE @]
    /\ UNCHANGED <<cmpVars, frame, disp, workers>>

\* tester.setup_test_table()
Main_setup_test_table ==
    /\ MainAt("setup_test_table")
    /\ args' = [method |-> "setup_test_table"]
    /\ \E o \in setup_test_table_outcomes :
          RunWhole("setup_test_table", "setup_test_table", o)

\* tester.test_single_inserts(args.single_inserts, args.commit_every)
Main_call_test_single_inserts ==
    /\ MainAt("single_inserts") /\ call.method # "test_single_inserts"
    /\ args' = [method |-> "test_single_inserts",
                num_inserts |-> session.args.single_inserts,
                commit_every |-> session.args.commit_every,
                pool_size |-> session.args.pool_size]
    /\ call' = [method |-> "test_single_inserts", status |-> "running", exception |-> ""]
    /\ frame' = [NoFrame EXCEPT !.pc = "get_connection"]
    /\ session' = [session EXCEPT !.started = Append(@, "single_inserts")]
    /\ UNCHANGED <<cmpVars, disp, workers, conns, rows, results>>

\* test_single_inserts has returned or raised
Main_after_test_single_inserts ==
    /\ MainAt("single_inserts") /\ call.method = "test_single_inserts"
    /\ session' = [session EXCEPT
                      !.pc = Resume("single_inserts", call.status),
                      !.finished = Append(@, Ended("single_inserts", call.status, results)),
                      !.error = IF call.status = "raised" THEN call.exception ELSE @]
    /\ UNCHANGED <<cmpVars, args, call, frame, disp, workers, conns, rows, results>>

\* tester.test_batch_inserts(args.batch_count, args.batch_size)
Main_test_batch_inserts ==
    /\ MainAt("batch_inserts")
    /\ args' = [method |-> "test_batch_inserts",
                num_batches |-> session.args.batch_count,
                batch_size |-> session.args.batch_size]
    /\ \E o \in test_batch_inserts_outcomes(session.args.batch_count,
                                             session.args.batch_size) :
          RunWhole("batch_inserts", "test_batch_inserts", o)

\* tester.test_concurrent_writes(args.threads, args.writes_per_thread,
\*                               args.concurrent_commit_every)
Main_call_test_concurrent_writes ==
    /\ MainAt("concurrent_writes") /\ call.method # "test_concurrent_writes"
    /\ args' = [method |-> "test_concurrent_writes",
                num_threads |-> session.args.threads,
                writes_per_thread |-> session.args.writes_per_thread,
                commit_every |-> session.args.concurrent_commit_every,
                pool_size |-> session.args.pool_size]
    /\ call' = [method |-> "test_concurrent_writes", status |-> "running", exception |-> ""]
    /\ disp' = [NoDisp EXCEPT !.pc = "submit"]
    /\ workers' = <<>>
    /\ session' = [session EXCEPT !.started = Append(@, "concurrent_writes")]
    /\ UNCHANGED <<cmpVars, frame, conns, rows, results>>

\* test_concurrent_writes has returned or raised
Main_after_test_concurrent_writes ==
    /\ MainAt("concurrent_writes") /\ call.method = "test_concurrent_writes"
    /\ session' = [session EXCEPT
                      !.pc = Resume("concurrent_writes", call.status),
                      !.finished = Append(@, Ended("concurrent_writes", call.status, results)),
                      !.error = IF call.status = "raised" THEN call.exception ELSE @]
    /\ UNCHANGED <<cmpVars, args, call, frame, disp, workers, conns, rows, results>>

\* tester.test_updates(args.single_inserts)
Main_test_updates ==
    /\ MainAt("updates")
    /\ args' = [method |-> "test_updates", num_updates |-> session.args.single_inserts]
    /\ \E o \in test_updates_outcomes(session.args.single_inserts) :
          RunWhole("updates", "test_updates", o)

\* tester.test_point_reads(args.read_queries)
Main_test_point_reads ==
    /\ MainAt("point_reads")
    /\ args' = [method |-> "test_point_reads", num_reads |-> session.args.read_queries]
    /\ \E o \in test_point_reads_outcomes(session.args.read_queries) :
          RunWhole("point_reads", "test_point_reads", o)

\* tester.test_range_reads(args.range_queries, args.range_size)
Main_test_range_reads ==
    /\ MainAt("range_reads")
    /\ args' = [method |-> "test_range_reads",
                num_queries |-> session.args.range_queries,
                range_size |-> session.args.range_size]
    /\ \E o \in test_range_reads_outcomes(session.args.range_queries,
                                            session.args.range_size) :
          RunWhole("range_reads", "test_range_reads", o)

\* the time at which the tester was created
CreatedAt == 0

\* save_results(filename): label, host and database as __init__ stored them,
\* 'timestamp' from datetime.now() at the time of the call
save_results(now) ==
    [written |-> TRUE,
     keys |-> MetaKeys,
     label |-> session.args.label,
     host |-> session.args.host,
     database |-> session.args.database,
     timestamp |-> now,
     results |-> results]

\* os.makedirs(...); output_file = ...; tester.save_results(output_file) and
\* the summary.  datetime.now() is the time of creation or a later one;
\* writing may fail with an OSError once output_file is bound.
Main_save_results ==
    /\ MainAt("save_results")
    /\ \/ \E now \in {CreatedAt, CreatedAt + 1} :
              session' = [session EXCEPT
                            !.pc = "finally",
                            !.output_file = TRUE,
                            !.file = save_results(now)]
       \/ \E bound \in BOOLEAN :
              session' = [session EXCEPT
                            !.pc = "except", !.output_file = bound, !.error = "OSError"]
    /\ UNCHANGED <<cmpVars, args, call, frame, disp, workers, conns, rows, results>>

\* Ctrl+C while main() is at a statement of its try block.  KeyboardInterrupt is no mysql
\* Error: a test method that is running is left where it is, its connection
\* open; out of test_concurrent_writes it gets once the executor has joined
\* its workers.
Main_KeyboardInterrupt ==
    /\ session.pc \in {"setup_test_table", "save_results"}
                         \cup SeqToSet(write_sequence \o read_sequence)
    /\ \A t \in DOMAIN workers : workers[t].state = "finished"
    /\ call' = IF call.status = "running"
               THEN [call EXCEPT !.status = "raised", !.exception = "KeyboardInterrupt"]
               ELSE call
    /\ frame' = IF Running("test_single_inserts") THEN [frame EXCEPT !.pc = "raised"]
                ELSE frame
    /\ disp' = IF Running("test_concurrent_writes") THEN [disp EXCEPT !.pc = "raised"]
               ELSE disp
    /\ session' = [session EXCEPT !.pc = "except_KeyboardInterrupt", !.interrupted = TRUE]
    /\ UNCHANGED <<cmpVars, args, workers, conns, rows, results>>

\* (mutation) the handlers leave main() for the lines after the try statement
AfterHandler_skipsFinally == "epilogue"

\* where an except clause of main() ends: in the finally clause
AfterHandler == "finally"

\* except KeyboardInterrupt: print("Testing interrupted by user")
Main_except_KeyboardInterrupt ==
    /\ MainAt("except_KeyboardInterrupt")
    /\ session' = [session EXCEPT !.pc = AfterHandler]
    /\ UNCHANGED <<cmpVars, args, call, frame, disp, workers, conns, rows, results>>

\* except Exception as e: print("Testing failed"); traceback.print_exc()
Main_except ==
    /\ MainAt("except")
    /\ session' = [session EXCEPT !.pc = AfterHandler, !.reported = TRUE]
    /\ UNCHANGED <<cmpVars, args, call, frame, disp, workers, conns, rows, results>>

\* cleanup(): get_connection, DROP TABLE IF EXISTS, commit, close.  An Error
\* of any of them is printed and not raised (the connection stays open when
\* it comes after get_connection).
cleanup_outcomes == Sequential({rows}, Outcome("returned", "", conns, 0, results))

\* finally: tester.cleanup() unless --no-cleanup
Main_finally ==
    /\ MainAt("finally")
    /\ IF session.args.no_cleanup
       THEN /\ session' = [session EXCEPT !.pc = "epilogue", !.cleanup = "skipped"]
            /\ UNCHANGED <<conns, rows>>
       ELSE \E o \in cleanup_outcomes :
               /\ conns' = o.conns
               /\ rows' = o.rows
               /\ session' = [session EXCEPT
                                 !.pc = "epilogue",
                                 !.cleanup = IF o.status = "raised" THEN "failed"
                                             ELSE "dropped"]
    /\ UNCHANGED <<cmpVars, args, call, frame, disp, workers, results>>

\* print("Testing Complete!"); print(f"Results saved to: {output_file}"):
\* output_file is unbound when an exception came before its assignment
Main_epilogue ==
    /\ MainAt("epilogue")
    /\ session' = [session EXCEPT
                      !.pc = "end",
                      !.exit = IF session.output_file THEN "0" ELSE "UnboundLocalError"]
    /\ UNCHANGED <<cmpVars, args, call, frame, disp, workers, conns, rows, results>>

\* the arguments of a run: one operation per test, MaxThreads threads
MainArgs(skip_writes, skip_reads, no_cleanup, pool_size, commit_every, concurrent_commit_every) ==
    [label |-> "MySQL", host |-> "localhost", database |-> "testdb",
     pool_size |-> pool_size,
     single_inserts |-> 1, commit_every |-> commit_every,
     batch_count |-> 1, batch_size |-> 1,
     threads |-> MaxThreads, writes_per_thread |-> 1,
     concurrent_commit_every |-> concurrent_commit_every,
     read_queries |-> 1, range_queries |-> 1, range_size |-> 1,
     skip_writes |-> skip_writes, skip_reads |-> skip_reads, no_cleanup |-> no_cleanup]

\* main() after the connection test and the permission check, at 'try:'
InitMain ==
    /\ NoComparator
    /\ \E skip_writes \in BOOLEAN, skip_reads \in BOOLEAN, no_cleanup \in BOOLEAN,
          pool_size \in 1..MaxThreads, ce \in 0..1, cce \in 0..1, old_rows \in 0..1 :
          /\ session = [pc |-> "setup_test_table",
                        args |-> MainArgs(skip_writes, skip_reads, no_cleanup,
                                          pool_size, ce, cce),
                        skip_writes |-> skip_writes, skip_reads |-> skip_reads,
                        started |-> <<>>, finished |-> <<>>,
                        error |-> "", reported |-> FALSE, interrupted |-> FALSE,
                        cleanup |-> "",
                        output_file |-> FALSE, file |-> NoFile, exit |-> ""]
          /\ conns = NewPool(pool_size)
          /\ rows = old_rows
    /\ args = [method |-> "none"]
    /\ call = NoCall
    /\ frame = NoFrame
    /\ disp = NoDisp
    /\ workers = <<>>
    /\ results = <<>>

NextMain ==
    \/ Main_setup_test_table
    \/ Main_call_test_single_inserts
    \/ Main_after_test_single_inserts
    \/ Main_test_batch_inserts
    \/ Main_call_test_concurrent_writes
    \/ Main_after_test_concurrent_writes
    \/ Main_test_updates
    \/ Main_test_point_reads
    \/ Main_test_range_reads
    \/ Main_save_results
    \/ Main_KeyboardInterrupt
    \/ Main_except_KeyboardInterrupt
    \/ Main_except
    \/ Main_finally
    \/ Main_epilogue
    \/ NextWrites

SpecMain == InitMain /\ [][NextMain]_vars

(***************************************************************************)
(* Properties of the comparator (checked under SpecCompare)                *)
(***************************************************************************)
Direct == out.op = "calculate_difference"

JsonOk == out.op = "compare_json" /\ out.status = "ok"

TextOk == out.op \in {"compare_table", "compare_markdown"} /\ out.status = "ok"

Report == out.op \in {"compare_table", "compare_markdown", "compare_json"}

\* the difference calculate_difference computes for two values
Difference(val1, val2) == calculate_difference(val1, val2, FALSE).diff_pct

C2_ZeroGuard ==
    /\ (Direct /\ out.val2 = 0) => (RatIsZero(out.diff_pct) /\ out.winner = "")
    /\ TextOk =>
          \A k \in DOMAIN out.rows : \A m \in DOMAIN out.rows[k] :
              out.rows[k][m].val2 = 0 =>
                  (RatIsZero(out.rows[k][m].diff_pct) /\ out.rows[k][m].winner = "")
    /\ JsonOk =>
          \A k \in DOMAIN out.comparisons : \A m \in DOMAIN out.comparisons[k] :
              out.comparisons[k][m].database2_value = 0 =>
                  /\ out.comparisons[k][m].difference_pct = 0
                  /\ out.comparisons[k][m].winner = 0

\* C3 (as claimed): difference_pct(x, y) = difference_pct(y, x), and for
\* x # y swapping the inputs flips the winner from A to B or from B to A.
C3_SwapSymmetric ==
    Direct =>
        LET x  == out.val1
            y  == out.val2
            lb == is_latency_metric(out.metric)
            xy == calculate_difference(x, y, lb)
            yx == calculate_difference(y, x, lb)
        IN  /\ RatEq(xy.diff_pct, yx.diff_pct)
            /\ x # y =>
                  \/ xy.winner = label1 /\ yx.winner = label2
                  \/ xy.winner = label2 /\ yx.winner = label1

\* C3 (amended): the difference is relative to the second input, so only the
\* absolute difference is symmetric: for nonzero x and y,
\* difference_pct(x, y) * |y| = difference_pct(y, x) * |x| = 100 * |x - y|;
\* and for x # y, whenever both orders declare a winner, the two winners are
\* opposite sides.
C3_SwapScaled ==
    Direct =>
        LET x  == out.val1
            y  == out.val2
            lb == is_latency_metric(out.metric)
            xy == calculate_difference(x, y, lb)
            yx == calculate_difference(y, x, lb)
        IN  /\ (x # 0 /\ y # 0) =>
                  /\ RatEq(RatTimes(xy.diff_pct, Abs(y)), Rat(100 * Abs(x - y), 1))
                  /\ RatEq(RatTimes(yx.diff_pct, Abs(x)), Rat(100 * Abs(x - y), 1))
            /\ (x # y /\ xy.winner # "" /\ yx.winner # "") =>
                  \/ xy.winner = label1 /\ yx.winner = label2
                  \/ xy.winner = label2 /\ yx.winner = label1

\* C3 witness: 120 against 100 is 20%, 100 against 120 is 16.67%; at
\* threshold 10 both orders declare a winner, on opposite sides.
C3_Witness ==
    /\ Direct /\ out.val1 = 120 /\ out.val2 = 100 /\ out.metric = "tps"
    /\ threshold = DefaultThreshold /\ label1 # label2
    /\ out.winner = label1
    /\ calculate_difference(100, 120, FALSE).winner = label2
    /\ Round2(calculate_difference(100, 120, FALSE).diff_pct) = 1667

\* C4: difference_pct is never negative, for positive, zero and negative
\* values and every threshold, as returned by calculate_difference and as
\* stored by compare_json.
C4_NonNegative ==
    /\ Direct => out.diff_pct.num >= 0 /\ out.diff_pct.den > 0
    /\ TextOk =>
          \A k \in DOMAIN out.rows : \A m \in DOMAIN out.rows[k] :
              out.rows[k][m].diff_pct.num >= 0 /\ out.rows[k][m].diff_pct.den > 0
    /\ JsonOk =>
          \A k \in DOMAIN out.comparisons : \A m \in DOMAIN out.comparisons[k] :
              out.comparisons[k][m].difference_pct >= 0

\* C4 witness: 100 against -50, where the signed quotient is -300%;
\* compare_json stores the positive difference 300.00.
C4_Witness ==
    /\ JsonOk
    /\ \E k \in DOMAIN out.comparisons : \E m \in DOMAIN out.comparisons[k] :
          /\ out.comparisons[k][m].database1_value = 100
          /\ out.comparisons[k][m].database2_value = 0 - 50
          /\ out.comparisons[k][m].difference_pct = 30000

\* the side with the better value: the smaller one for a latency or time
\* metric, the larger one for a throughput metric; 0 on a tie
BetterSide(metric, val1, val2) ==
    IF val1 = val2 THEN 0
    ELSE IF "latency" \in MetricWords[metric] \/ "time" \in MetricWords[metric]
         THEN (IF val1 < val2 THEN 1 ELSE 2)
         ELSE (IF val1 > val2 THEN 1 ELSE 2)

LabelOf(side) == IF side = 1 THEN label1 ELSE IF side = 2 THEN label2 ELSE ""

\* C5 (as claimed): when a winner is declared for a metric it is the side with
\* the smaller value for a latency or time metric and the side with the
\* larger value for tps and qps.
C5_Polarity ==
    /\ (Direct /\ out.winner # "") =>
          /\ BetterSide(out.metric, out.val1, out.val2) # 0
          /\ out.winner = LabelOf(BetterSide(out.metric, out.val1, out.val2))
    /\ JsonOk =>
          \A k \in DOMAIN out.comparisons : \A m \in DOMAIN out.comparisons[k] :
              LET e == out.comparisons[k][m]
              IN  e.winner # 0 =>
                      e.winner = BetterSide(m, e.database1_value, e.database2_value)

\* the test kinds of a list that both files hold
PairedSet(tests) ==
    {t \in SeqToSet(tests) : t \in DOMAIN result1.results /\ t \in DOMAIN result2.results}

RECURSIVE Total(_, _, _)
Total(r, S, metric) ==
    IF S = {} THEN 0
    ELSE LET t == CHOOSE x \in S : TRUE
         IN  r.results[t][metric] + Total(r, S \ {t}, metric)

\* both files carry their metadata and every metric of every test they share
InputsComplete ==
    /\ \A r \in {result1, result2} : MetaKeys \ {"label"} \subseteq r.keys
    /\ \A k \in SeqToSet(TestKeys) :
          (k \in DOMAIN result1.results /\ k \in DOMAIN result2.results) =>
              /\ DOMAIN result1.results[k] = MetricsOf(k)
              /\ DOMAIN result2.results[k] = MetricsOf(k)

\* the winner line of one group of tests states a winner, decided by the two
\* average throughputs alone
StatesWinner(line, S, metric) ==
    /\ Len(line) = 1
    /\ line[1].winner \in {label1, label2}
    /\ Total(result1, S, metric) > Total(result2, S, metric) => line[1].winner = label1
    /\ Total(result1, S, metric) < Total(result2, S, metric) => line[1].winner = label2

\* C6 (as claimed): whenever a write (read) kind is present in both inputs,
\* the text report states a write (read) winner, decided by comparing the two
\* average throughputs with no threshold gating, for every pair of averages,
\* equal and zero averages included.
C6_AggregateWinner ==
    (out.op \in {"compare_table", "compare_markdown"} /\ InputsComplete) =>
        /\ PairedSet(write_tests) # {} =>
              /\ out.status = "ok"
              /\ StatesWinner(out.overall.write_winner, PairedSet(write_tests), "tps")
        /\ PairedSet(read_tests) # {} =>
              /\ out.status = "ok"
              /\ StatesWinner(out.overall.read_winner, PairedSet(read_tests), "qps")

\* the summary dictionary of a report
SummaryOf(o) == IF o.op = "compare_json" THEN o.summary ELSE o.overall.summary

IsMeanOver(avg, r, S, metric) ==
    IF S = {} THEN RatIsZero(avg)
    ELSE RatEq(avg, Rat(Total(r, S, metric), Cardinality(S)))

\* C7: summary.write_tests (read_tests) is exactly the set of write (read)
\* kinds present in both inputs, and each side's average is the mean of that
\* side's tps (qps) over exactly that set.
C7_PairedSummary ==
    (JsonOk \/ TextOk) =>
        LET sm == SummaryOf(out)
            W  == PairedSet(write_tests)
            R  == PairedSet(read_tests)
        IN  /\ SeqToSet(sm.write_tests) = W /\ Len(sm.write_tests) = Cardinality(W)
            /\ SeqToSet(sm.read_tests) = R /\ Len(sm.read_tests) = Cardinality(R)
            /\ IsMeanOver(sm.db1_write_tps, result1, W, "tps")
            /\ IsMeanOver(sm.db2_write_tps, result2, W, "tps")
            /\ IsMeanOver(sm.db1_read_qps, result1, R, "qps")
            /\ IsMeanOver(sm.db2_read_qps, result2, R, "qps")

\* C7 witness: file 1 holds single_inserts (500) and batch_inserts (900),
\* file 2 only single_inserts (400): the summary pairs single_inserts alone,
\* with averages 500 and 400.
C7_Witness ==
    /\ JsonOk
    /\ DOMAIN result1.results = {"single_inserts", "batch_inserts"}
    /\ DOMAIN result2.results = {"single_inserts"}
    /\ out.summary.write_tests = <<"single_inserts">>
    /\ RatEq(out.summary.db1_write_tps, Rat(500, 1))
    /\ RatEq(out.summary.db2_write_tps, Rat(400, 1))

\* the test kinds a report compared
KindsOf(o) == IF o.op = "compare_json" THEN DOMAIN o.comparisons ELSE DOMAIN o.rows

\* C8: the kinds in the report's comparisons are exactly the kinds present in
\* both inputs (among the six known kinds), and a kind present in only one
\* input raises no error: with no kind shared and the metadata present, every
\* format returns a report.
C8_OnlyShared ==
    /\ (JsonOk \/ TextOk) =>
          KindsOf(out) =
              (DOMAIN result1.results \cap DOMAIN result2.results) \cap SeqToSet(TestKeys)
    /\ (Report /\ ~MetaKeyError
          /\ (DOMAIN result1.results \cap DOMAIN result2.results) \cap SeqToSet(TestKeys) = {})
          => (out.status = "ok" /\ KindsOf(out) = {})

\* C8 witness: range_reads is in both files, point_reads only in the first
\* and the unknown kind only in the second; the report compares range_reads.
C8_Witness ==
    /\ JsonOk
    /\ DOMAIN result1.results = {"point_reads", "range_reads"}
    /\ DOMAIN result2.results = {"range_reads", "mixed_workload"}
    /\ DOMAIN out.comparisons = {"range_reads"}

(***************************************************************************)
(* Properties of the write workloads (checked under SpecWrites)            *)
(***************************************************************************)
\* the calls of the first k operations when a commit follows every
\* commit_every-th operation
RECURSIVE CadenceCalls(_, _)
CadenceCalls(k, commit_every) ==
    IF k <= 0 THEN <<>>
    ELSE CadenceCalls(k - 1, commit_every)
            \o (IF k % commit_every = 0 THEN <<"execute", "commit">> ELSE <<"execute">>)

\* a writer's calls are on cadence while it loops, and end with the final
\* commit once it has closed its connection
OnCadence(f, n, commit_every) ==
    /\ f.pc \in {"loop", "final_commit"} => f.log = CadenceCalls(f.i, commit_every)
    /\ f.pc \in {"close", "closed"} =>
          f.log = CadenceCalls(n, commit_every) \o <<"commit">>

AllWorkersClosed ==
    /\ DOMAIN workers # {}
    /\ \A t \in DOMAIN workers : workers[t].frame.pc = "closed"

\* C9: in the single-insert loop and in every concurrent worker a commit is
\* issued after every commit_every-th operation and once more after the last
\* one, so that for every n >= 1 and commit_every >= 1 a writer that finishes
\* has committed every operation it executed.
C9_CommitCadence ==
    (args.method # "none" /\ args.commit_every >= 1) =>
        /\ OnCadence(frame, args.num_inserts, args.commit_every)
        /\ (call.method = "test_single_inserts" /\ call.status = "returned") =>
              (frame.pc = "closed" /\ rows = args.num_inserts)
        /\ \A t \in DOMAIN workers :
              OnCadence(workers[t].frame, args.writes_per_thread, args.commit_every)
        /\ AllWorkersClosed => rows = args.num_threads * args.writes_per_thread

\* C9 witness: 3 single inserts with a commit every 2: the commit after the
\* second insert, then the third insert and the final commit.
C9_Witness ==
    /\ call = [method |-> "test_single_inserts", status |-> "returned", exception |-> ""]
    /\ args.num_inserts = 3 /\ args.commit_every = 2
    /\ frame.log = <<"execute", "execute", "commit", "execute", "commit">>
    /\ rows = 3

\* test_concurrent_writes is running with positive arguments
PositiveDispatch ==
    /\ call.method = "test_concurrent_writes"
    /\ args.num_threads >= 1
    /\ args.writes_per_thread >= 1
    /\ args.commit_every >= 1

\* a step of worker t
WorkerStep(t) ==
    \/ CW_GetConnection(t)
    \/ CW_LoopPass(t)
    \/ CW_FinalCommit(t)
    \/ CW_Return(t)
    \/ CW_Except(t)
    \/ CW_Uncaught(t)

Succeeded == {t \in DOMAIN workers : workers[t].frame.pc = "closed"}

AllWorkersFailed ==
    /\ DOMAIN workers # {}
    /\ \A t \in DOMAIN workers : workers[t].frame.pc = "caught"

\* C12: when all workers fail, so that the merged sample is empty, the
\* dispatch ends by raising to its caller, not by returning.
C12_AllFailedRaises ==
    (PositiveDispatch /\ call.status # "running" /\ AllWorkersFailed) =>
        call.status = "raised"

\* C13: a workload or a worker that has returned or raised holds no pooled
\* connection.
C13_ConnectionReleased ==
    /\ (call.method = "test_single_inserts" /\ call.status \in {"returned", "raised"}) =>
          frame.conn = NoConn
    /\ \A t \in DOMAIN workers :
          workers[t].state = "finished" => workers[t].frame.conn = NoConn

\* C14: no connection is held by two workers at the same time, and a
\* connection a worker holds is not free in the pool.
C14_OwnConnection ==
    \A t \in DOMAIN workers :
        workers[t].frame.conn # NoConn =>
            /\ workers[t].frame.conn \in DOMAIN conns
            /\ ~conns[workers[t].frame.conn].free
            /\ \A u \in DOMAIN workers \ {t} :
                  workers[u].frame.conn # workers[t].frame.conn

\* C14 witness: two workers are writing, each on its own connection.
C14_Witness ==
    /\ call.method = "test_concurrent_writes"
    /\ DOMAIN workers = {0, 1}
    /\ workers[0].frame.pc = "loop" /\ workers[0].frame.log # <<>>
    /\ workers[1].frame.pc = "loop" /\ workers[1].frame.log # <<>>
    /\ workers[0].frame.conn # NoConn
    /\ workers[1].frame.conn # NoConn
    /\ workers[0].frame.conn # workers[1].frame.conn

\* a workload argument that is zero or negative
BadParameters ==
    \/ /\ args.method = "test_single_inserts"
       /\ (args.num_inserts <= 0 \/ args.commit_every <= 0)
    \/ /\ args.method = "test_concurrent_writes"
       /\ (args.num_threads <= 0 \/ args.writes_per_thread <= 0 \/ args.commit_every <= 0)

\* C19: a workload run with a zero or negative parameter fails (with
\* InvalidParameterError, whatever the exception's name in the code) before
\* any statement is executed, and leaves the results of other workloads
\* untouched.
C19_ParametersValidated ==
    BadParameters =>
        /\ frame.log = <<>>
        /\ \A t \in DOMAIN workers : workers[t].frame.log = <<>>
        /\ call.status # "returned"
        /\ results = <<>>

\* C20: on a sample of zero elements no percentile, mean or median value is
\* returned: the computation fails.
C20_EmptySampleFails ==
    (args.method = "statistics" /\ args.data = <<>> /\ call # NoCall) =>
        call.status = "raised"

(***************************************************************************)
(* Properties of a run of main() (checked under SpecMain)                  *)
(***************************************************************************)
IsPrefix(s, t) == Len(s) <= Len(t) /\ s = SubSeq(t, 1, Len(s))

\* C15: the selected tests are started in the fixed order single_inserts,
\* batch_inserts, concurrent_writes, updates, point_reads, range_reads; no
\* test starts before every earlier one has ended, and every concurrent
\* worker has ended before updates starts.
C15_FixedOrder ==
    session.pc # "none" =>
        /\ IsPrefix(session.started, Selected(session.skip_writes, session.skip_reads))
        /\ Len(session.finished) <= Len(session.started)
        /\ Len(session.started) <= Len(session.finished) + 1
        /\ \A i \in 1..Len(session.finished) :
              session.finished[i].kind = session.started[i]
        /\ call.status = "running" =>
              /\ Len(session.started) = Len(session.finished) + 1
              /\ call.method = "test_" \o session.started[Len(session.started)]
        /\ (\E t \in DOMAIN workers : workers[t].state = "running") =>
              /\ session.pc = "concurrent_writes"
              /\ session.started[Len(session.started)] = "concurrent_writes"
        /\ "updates" \in SeqToSet(session.started) =>
              /\ DOMAIN workers = 0..(session.args.threads - 1)
              /\ \A t \in DOMAIN workers : workers[t].state = "finished"

\* C15 witness: a run of all six tests with both workers joined has ended.
C15_Witness ==
    /\ session.pc = "end" /\ session.exit = "0"
    /\ session.started = write_sequence \o read_sequence
    /\ Len(session.finished) = 6
    /\ DOMAIN workers = {0, 1}
    /\ session.file.written
    /\ DOMAIN session.file.results =
          {"single_inserts", "batch_inserts", "concurrent_writes", "updates",
           "point_reads", "range_reads"}

\* a test has raised, or main() has caught an exception
Aborting == call.status = "raised" \/ session.error # ""

C17_NoSilentPartialSuccess ==
    (session.pc = "end" /\ session.error = "" /\ session.file.written) =>
        \A kind \in SeqToSet(Selected(session.skip_writes, session.skip_reads)) :
            kind \in DOMAIN session.file.results

\* C18: point reads on an empty table end by raising to main(), which
\* aborts the remaining sequence.
C18_EmptyTableRaises ==
    (call.method = "test_point_reads" /\ call.status # "running" /\ rows = 0) =>
        (call.status = "raised" /\ session.pc = "except")

(***************************************************************************)
(* Winner id of compare_json against the label of calculate_difference     *)
(***************************************************************************)
\* C30: with distinct labels the winner id compare_json writes for a metric
\* is 0 exactly when calculate_difference returns no label for the same
\* values, 1 exactly when it returns label1 and 2 exactly when label2.
C30_IdAgreesWithLabel ==
    (JsonOk /\ label1 # label2) =>
        \A k \in DOMAIN out.comparisons : \A m \in DOMAIN out.comparisons[k] :
            LET e == out.comparisons[k][m]
                d == calculate_difference(e.database1_value, e.database2_value,
                                          is_latency_metric(m))
            IN  /\ e.winner = 0 <=> d.winner = ""
                /\ e.winner = 1 <=> d.winner = label1
                /\ e.winner = 2 <=> d.winner = label2

\* C22: a call of the comparator (compare_table, compare_markdown,
\* compare_json), whether it returns a report or raises, leaves both input
\* result files as they were before the call.
C22_InputsUnchanged ==
    [][out'.op \in {"compare_table", "compare_markdown", "compare_json"} =>
          (result1' = result1 /\ result2' = result2)]_vars

\* C22 witness: compare_json has raised KeyError on a file without the
\* 'host' key, and the file still has its results and no 'host'.
C22_Witness ==
    /\ out.op = "compare_json" /\ out.status = "KeyError"
    /\ "host" \notin result1.keys
    /\ "results" \in result1.keys
    /\ DOMAIN result1.results # {}
    /\ label1 # ""

\* C21: for every non-empty sample the latency entries of a result satisfy
\* min <= median <= max and p95 <= p99 (both percentiles come from the same
\* method: nearest-rank below QuantilesFrom elements, quantiles from there on).
C21_QuantilesMonotone ==
    (call # NoCall /\ call.method = "latency_statistics" /\ args.data # <<>>) =>
        /\ call.status = "returned"
        /\ call.min_latency_ms <= call.median_latency_ms
        /\ call.median_latency_ms <= call.max_latency_ms
        /\ call.p95_latency_ms <= call.p99_latency_ms
        /\ call.min_latency_ms <= call.p95_latency_ms
        /\ call.p99_latency_ms <= call.max_latency_ms

\* C21 witness: a sample recorded in falling order whose five entries are
\* all different, from the nearest-rank method
C21_Witness ==
    /\ call # NoCall /\ call.method = "latency_statistics"
    /\ Len(args.data) = QuantilesFrom - 1
    /\ args.data[1] > args.data[2]
    /\ call.min_latency_ms < call.median_latency_ms
    /\ call.median_latency_ms < call.p95_latency_ms
    /\ call.p95_latency_ms < call.p99_latency_ms
    /\ call.p99_latency_ms <= call.max_latency_ms

\* C21 witness of the quantiles method: a sample of QuantilesFrom elements
\* in falling order with p95 < p99
C21_WitnessQuantiles ==
    /\ call # NoCall /\ call.method = "latency_statistics"
    /\ Len(args.data) = QuantilesFrom
    /\ args.data[1] > args.data[2]
    /\ call.p95_latency_ms < call.p99_latency_ms
    /\ call.p99_latency_ms < call.max_latency_ms

\* the element at index min(floor(n * p / 100), n - 1), counted from 0, of
\* the ascending-sorted sample
NearestRank(data, p) ==
    LET n     == Len(data)
        exact == (n * p) \div 100
    IN  Rat(sorted(data)[(IF exact < n - 1 THEN exact ELSE n - 1) + 1], 1)

\* C26: for a sample of n >= 2 elements calculate_percentile returns the
\* nearest-rank element, index min(floor(n * p / 100), n - 1) of the sorted
\* sample, for every percentile when n < QuantilesFrom and for every
\* percentile but 95 and 99 from there on; for n >= QuantilesFrom it returns
\* cut point 19 of 20 for 95 and cut point 99 of 100 for 99.
C26_MethodSelection ==
    (call # NoCall /\ call.method = "calculate_percentile" /\ Len(args.data) >= 2) =>
        LET n == Len(args.data)
            p == args.percentile
        IN  /\ call.status = "returned"
            /\ (n < QuantilesFrom \/ p \notin {95, 99}) =>
                  call.value = NearestRank(args.data, p)
            /\ (n >= QuantilesFrom /\ p = 95) => call.value = quantiles(args.data, 20, 19)
            /\ (n >= QuantilesFrom /\ p = 99) => call.value = quantiles(args.data, 100, 99)

\* C25: every latency recorded by the single-insert loop and by a concurrent
\* writer covers the execute call alone: the clock is read for the second
\* time before any commit of that operation.
C25_TimerCoversExecuteOnly ==
    /\ \A i \in DOMAIN frame.latencies : frame.latencies[i] = <<"execute">>
    /\ \A t \in DOMAIN workers :
          \A i \in DOMAIN workers[t].frame.latencies :
              workers[t].frame.latencies[i] = <<"execute">>

\* C27: in a stored concurrent-write result 'records' and the writes that
\* 'tps' divides by the time are num_threads * writes_per_thread, whichever
\* workers failed.
C27_PlannedWrites ==
    (args.method = "test_concurrent_writes" /\ "concurrent_writes" \in DOMAIN results) =>
        LET r == results["concurrent_writes"]
        IN  /\ r.records = args.num_threads * args.writes_per_thread
            /\ r.tps.writes = args.num_threads * args.writes_per_thread
            /\ r.latencies # <<>>

\* C27 witness: a result is stored after one of two workers failed, with
\* fewer latencies in the merged sample than 'records'
C27_Witness ==
    /\ args.method = "test_concurrent_writes" /\ "concurrent_writes" \in DOMAIN results
    /\ \E t \in DOMAIN workers : workers[t].frame.pc = "caught"
    /\ \E t \in DOMAIN workers : workers[t].frame.pc = "closed"
    /\ Len(results["concurrent_writes"].latencies) < results["concurrent_writes"].records

\* the test methods by the kind of result they store
TestMethods == {"test_" \o k : k \in SeqToSet(write_sequence \o read_sequence)}

\* C28: a step of a test method that changes the results map is the return
\* of that method and adds or replaces the entry of its own kind, leaving
\* every other entry as it was; a step in which a test method raises, or
\* returns without a result, leaves the results map unchanged.
C28_OwnEntryOnly ==
    [][/\ results' # results =>
            \E kind \in SeqToSet(write_sequence \o read_sequence) :
               /\ call'.method = "test_" \o kind
               /\ call'.status = "returned" /\ call' # call
               /\ DOMAIN results' = DOMAIN results \cup {kind}
               /\ \A k \in DOMAIN results : k # kind => results'[k] = results[k]
               /\ kind = "single_inserts" =>
                     /\ frame'.pc = "closed"
                     /\ Len(results'[kind].latencies) = args.num_inserts
               /\ kind = "concurrent_writes" =>
                     \A t \in DOMAIN workers : workers[t].state = "finished"
       /\ (call'.method \in TestMethods /\ call'.status = "raised") =>
            results' = results]_vars

\* C28 witness: test_batch_inserts has returned with its entry stored next
\* to the one test_single_inserts had stored
C28_Witness ==
    /\ call.method = "test_batch_inserts" /\ call.status = "returned"
    /\ DOMAIN results = {"single_inserts", "batch_inserts"}
    /\ results["single_inserts"].records = 1

\* C29: a result file saved by a run with --skip-writes and without
\* --skip-reads holds a range_reads result and no point_reads result (the
\* table is empty when the read tests run).
C29_ReadsOnEmptyTable ==
    (session.pc # "none" /\ session.skip_writes /\ ~session.skip_reads) =>
        /\ (call.method \in {"test_point_reads", "test_range_reads"}
               /\ call.status = "returned") => rows = 0
        /\ "point_reads" \notin DOMAIN results
        /\ session.file.written =>
              /\ "range_reads" \in DOMAIN session.file.results
              /\ "point_reads" \notin DOMAIN session.file.results

\* C29 witness: such a run has saved its file, test_point_reads having
\* returned without a result and test_range_reads with one
C29_Witness ==
    /\ session.pc = "end" /\ session.skip_writes /\ ~session.skip_reads
    /\ session.file.written
    /\ DOMAIN session.file.results = {"range_reads"}
    /\ session.finished = <<[kind |-> "point_reads", status |-> "returned", stored |-> FALSE],
                            [kind |-> "range_reads", status |-> "returned", stored |-> TRUE]>>

\* C23: the label, host, database and timestamp written with the results
\* are those fixed when the tester was created.
C23_MetadataFixedAtCreation ==
    (session.pc # "none" /\ session.file.written) =>
        /\ session.file.label = session.args.label
        /\ session.file.host = session.args.host
        /\ session.file.database = session.args.database
        /\ session.file.timestamp = CreatedAt

\* main() has left its try statement
AfterTry == session.pc \in {"epilogue", "end"}

C24_WitnessInterrupted ==
    /\ session.pc = "end" /\ session.interrupted
    /\ session.cleanup = "dropped"
    /\ rows = 0

====
